---- MODULE Spec2Model ----
(***************************************************************************)
(* Model of the Home Assistant integration "deutsche_ferien":              *)
(*   api.py         _get_localized_name, _api_request, fetch_ferien,       *)
(*                  fetch_feiertage                                        *)
(*   coordinator.py _compute_date_range, FerienCoordinator                 *)
(*   sensor.py      the sensor properties read from coordinator.data       *)
(*   yaml_writer.py write_ferien_yaml (the every-free-day section)         *)
(*   button.py / __init__.py  the refresh triggers, setup and unload of    *)
(*                  the config entries, the update_ferien service          *)
(*                                                                         *)
(* Representation.                                                         *)
(*  - A datetime.date is a record [year, month, day].                      *)
(*  - A Python str holding a date ("2025-12-24") is the sequence of its    *)
(*    eight digits <<2,0,2,5,1,2,2,4>>; the two dashes sit at fixed        *)
(*    positions and are left out.  Strings are compared lexicographically  *)
(*    (StrLE), dates component-wise (DateLE), and date differences go      *)
(*    through toordinal, as in Python.                                     *)
(*  - Python None / Optional is a sequence of length 0 or 1.               *)
(*  - A JSON value of a record field is [t, s]: t is "str", "null", "int"  *)
(*    or "absent" (key missing) and s the digits of a str.                 *)
(***************************************************************************)
EXTENDS Integers, Sequences, FiniteSets, TLC

None == <<>>
Some(x) == <<x>>

(***************************************************************************)
(* Bounds of the model.                                                    *)
(***************************************************************************)
\* longest source response (number of records) enumerated per request
MaxRecords == 2
\* number of calendar years, from FirstYear on, whose days are taken as today
\* when the request window alone is computed
RangeYears == 3
\* number of config entries of the domain
MaxEntries == 2

(***************************************************************************)
(* datetime.date                                                           *)
(***************************************************************************)
Date(y, m, d) == [year |-> y, month |-> m, day |-> d]

IsLeap(y) == (y % 4 = 0) /\ ((y % 100 # 0) \/ (y % 400 = 0))

DaysInMonth(y, m) ==
    IF m = 2 THEN (IF IsLeap(y) THEN 29 ELSE 28)
    ELSE IF m \in {4, 6, 9, 11} THEN 30 ELSE 31

RECURSIVE DaysBeforeMonth(_, _)
DaysBeforeMonth(y, m) ==
    IF m <= 1 THEN 0 ELSE DaysBeforeMonth(y, m - 1) + DaysInMonth(y, m - 1)

DaysBeforeYear(y) ==
    LET p == y - 1 IN p * 365 + (p \div 4) - (p \div 100) + (p \div 400)

\* date.toordinal()
toordinal(d) == DaysBeforeYear(d.year) + DaysBeforeMonth(d.year, d.month) + d.day

\* date.weekday(): Monday = 0 .. Sunday = 6
weekday(d) == (toordinal(d) + 6) % 7

\* (a - b).days
DaysBetween(a, b) == toordinal(a) - toordinal(b)

\* date.__lt__ / __le__ : comparison of (year, month, day)
DateLT(a, b) ==
    \/ a.year < b.year
    \/ a.year = b.year /\ a.month < b.month
    \/ a.year = b.year /\ a.month = b.month /\ a.day < b.day

DateLE(a, b) == DateLT(a, b) \/ a = b

\* date.isoformat(): "YYYY-MM-DD", as its eight digits
isoformat(d) ==
    << (d.year \div 1000) % 10, (d.year \div 100) % 10, (d.year \div 10) % 10,
       d.year % 10, (d.month \div 10) % 10, d.month % 10,
       (d.day \div 10) % 10, d.day % 10 >>

\* date.fromisoformat(s) for a str s: [ok, date]; ok = FALSE is ValueError
fromisoformat(s) ==
    IF Len(s) # 8 THEN [ok |-> FALSE, date |-> Date(1, 1, 1)]
    ELSE LET y == s[1] * 1000 + s[2] * 100 + s[3] * 10 + s[4]
             m == s[5] * 10 + s[6]
             d == s[7] * 10 + s[8]
         IN IF y >= 1 /\ m \in 1..12 /\ d >= 1 /\ d <= DaysInMonth(y, m)
            THEN [ok |-> TRUE, date |-> Date(y, m, d)]
            ELSE [ok |-> FALSE, date |-> Date(1, 1, 1)]

\* str.__lt__ / __le__ : lexicographic comparison of two strings
RECURSIVE StrLT(_, _)
StrLT(a, b) ==
    IF b = <<>> THEN FALSE
    ELSE IF a = <<>> THEN TRUE
    ELSE IF Head(a) # Head(b) THEN Head(a) < Head(b)
    ELSE StrLT(Tail(a), Tail(b))

StrLE(a, b) == a = b \/ StrLT(a, b)

WOCHENTAGE ==
    << "Montag", "Dienstag", "Mittwoch", "Donnerstag", "Freitag", "Samstag", "Sonntag" >>

(***************************************************************************)
(* JSON values of the source records                                       *)
(***************************************************************************)
JStr(s) == [t |-> "str", s |-> s]
JNull == [t |-> "null", s |-> <<>>]
JInt == [t |-> "int", s |-> <<>>]
JAbsent == [t |-> "absent", s |-> <<>>]

\* entry.get(key, ""): the default replaces a missing key only
GetOrEmpty(v) == IF v.t = "absent" THEN JStr(<<>>) ELSE v

\* Python truth value of a JSON value ("" and None are falsy; the int is non-zero)
Truthy(v) == (v.t = "str" /\ v.s # <<>>) \/ v.t = "int"

\* date.fromisoformat(v): TypeError for a non-str, ValueError for a bad str
ParseDate(v) ==
    IF v.t # "str" THEN [ok |-> FALSE, date |-> Date(1, 1, 1)]
    ELSE fromisoformat(v.s)

(***************************************************************************)
(* api.py                                                                  *)
(***************************************************************************)
\* A name array of the source: a sequence of [language, text], text optional.
\* _get_localized_name(name_list, fallback)
RECURSIVE FirstWithLanguage(_, _)
FirstWithLanguage(name_list, lang) ==
    IF name_list = <<>> THEN None
    ELSE IF Head(name_list).language = lang THEN Some(Head(name_list))
    ELSE FirstWithLanguage(Tail(name_list), lang)

TextOr(e, fallback) == IF e.text = None THEN fallback ELSE e.text[1]

_get_localized_name(name_list, fallback) ==
    IF name_list = <<>> THEN fallback
    ELSE LET de == FirstWithLanguage(name_list, "DE")
         IN IF de # None THEN TextOr(de[1], fallback)
            ELSE TextOr(name_list[1], fallback)

\* _api_request: the outcome of session.get(...) is http = [kind, body];
\* every outcome but HTTP 200 with a JSON list yields None, none raises.
HttpKinds == {"ok", "http_error", "not_list", "client_error", "timeout", "bad_json"}

ApiRequestLeaksTimeout(http) ==
    IF http.kind = "ok" THEN [exc |-> None, value |-> Some(http.body)]
    ELSE IF http.kind = "timeout" THEN [exc |-> Some("TimeoutError"), value |-> None]
    ELSE [exc |-> None, value |-> None]

_api_request(http) ==
    IF http.kind = "ok" THEN [exc |-> None, value |-> Some(http.body)]
    ELSE [exc |-> None, value |-> None]

\* BUNDESLAND_TO_SUBDIVISION.get(bundesland, f"DE-{bundesland}")
Subdivision(bundesland) == << "DE", bundesland >>

\* list(range(von.year, bis.year + 1))
RECURSIVE RangeSeq(_, _)
RangeSeq(a, b) == IF a > b THEN <<>> ELSE <<a>> \o RangeSeq(a + 1, b)

\* sorted(S) for a set of ints
RECURSIVE SortedSeq(_)
SortedSeq(S) ==
    IF S = {} THEN <<>>
    ELSE LET m == CHOOSE x \in S : \A y \in S : x <= y
         IN <<m>> \o SortedSeq(S \ {m})

SeqSet(s) == {s[i] : i \in 1..Len(s)}

\* sorted(requested_years - years_with_data)
MissingYears(von, bis, years_with_data) ==
    SortedSeq({y \in von.year..bis.year : TRUE} \ years_with_data)

\* list.sort(key=...) is stable: an element goes after every element whose
\* key is <= its own.
RECURSIVE InsertByStartBeforeEqual(_, _)
InsertByStartBeforeEqual(sorted, x) ==
    IF sorted = <<>> THEN <<x>>
    ELSE IF StrLT(Head(sorted).start, x.start)
         THEN <<Head(sorted)>> \o InsertByStartBeforeEqual(Tail(sorted), x)
         ELSE <<x>> \o sorted

RECURSIVE InsertByStart(_, _)
InsertByStart(sorted, x) ==
    IF sorted = <<>> THEN <<x>>
    ELSE IF StrLE(Head(sorted).start, x.start)
         THEN <<Head(sorted)>> \o InsertByStart(Tail(sorted), x)
         ELSE <<x>> \o sorted

RECURSIVE SortByStart(_)
SortByStart(l) ==
    IF l = <<>> THEN <<>>
    ELSE InsertByStart(SortByStart(SubSeq(l, 1, Len(l) - 1)), l[Len(l)])

RECURSIVE InsertByDatum(_, _)
InsertByDatum(sorted, x) ==
    IF sorted = <<>> THEN <<x>>
    ELSE IF StrLE(Head(sorted).datum, x.datum)
         THEN <<Head(sorted)>> \o InsertByDatum(Tail(sorted), x)
         ELSE <<x>> \o sorted

RECURSIVE SortByDatum(_)
SortByDatum(l) ==
    IF l = <<>> THEN <<>>
    ELSE InsertByDatum(SortByDatum(SubSeq(l, 1, Len(l) - 1)), l[Len(l)])

\* ---- fetch_ferien ------------------------------------------------------
\* years_with_data.add(start.year); years_with_data.add(end.year)
FerienYearsStartOnly(years, start, end) == years \cup {start.year}

FerienYears(years, start, end) == years \cup {start.year, end.year}

\* if key in seen: continue
FerienSeenNever(seen, key) == FALSE

FerienSeen(seen, key) == key \in seen

\* the dict appended to ferien
FerienRecordEndIsStart(name, start, end) ==
    [name |-> name, start |-> isoformat(start), end |-> isoformat(start)]

FerienRecord(name, start, end) ==
    [name |-> name, start |-> isoformat(start), end |-> isoformat(end)]

\* one iteration of "for i, entry in enumerate(data)"; acc = [exc, ferien,
\* seen, years].  A record that is no JSON object has no .get: AttributeError,
\* which the except (ValueError, TypeError) clause does not catch.
FerienEntry(acc, entry) ==
    IF ~entry.dict THEN [acc EXCEPT !.exc = Some("AttributeError")]
    ELSE
    LET start_str == GetOrEmpty(entry.startDate)
        end_str == GetOrEmpty(entry.endDate)
    IN  IF ~Truthy(start_str) \/ ~Truthy(end_str) THEN acc
        ELSE
        LET ps == ParseDate(start_str)
            pe == ParseDate(end_str)
        IN  IF ~ps.ok \/ ~pe.ok THEN acc
            ELSE
            LET name == _get_localized_name(entry.name, "Ferien")
                years == FerienYears(acc.years, ps.date, pe.date)
                key == << name, isoformat(ps.date), isoformat(pe.date) >>
            IN  IF FerienSeen(acc.seen, key) THEN [acc EXCEPT !.years = years]
                ELSE [acc EXCEPT !.years = years,
                                 !.seen = @ \cup {key},
                                 !.ferien = Append(@, FerienRecord(name, ps.date, pe.date))]

RECURSIVE FerienLoop(_, _)
FerienLoop(data, acc) ==
    IF data = <<>> \/ acc.exc # None THEN acc
    ELSE FerienLoop(Tail(data), FerienEntry(acc, Head(data)))


\* fetch_ferien(hass, bundesland, von, bis) -> [exc, ferien, missing]
fetch_ferien(http, von, bis) ==
    LET r == _api_request(http)
    IN  IF r.exc # None THEN [exc |-> r.exc, ferien |-> <<>>, missing |-> <<>>]
        ELSE IF r.value = None
          THEN [exc |-> None, ferien |-> <<>>, missing |-> RangeSeq(von.year, bis.year)]
        ELSE
        LET acc == FerienLoop(r.value[1],
                              [exc |-> None, ferien |-> <<>>, seen |-> {}, years |-> {}])
        IN  IF acc.exc # None THEN [exc |-> acc.exc, ferien |-> <<>>, missing |-> <<>>]
            ELSE [exc |-> None,
                  ferien |-> SortByStart(acc.ferien),
                  missing |-> MissingYears(von, bis, acc.years)]

\* ---- fetch_feiertage ---------------------------------------------------
\* include / tag_type of one record (the if / elif / elif chain);
\* subdivisions is "entry.get('subdivisions') or []" reduced to its codes
ClassifyNoEdgeCase(nationwide, subdivision_codes, subdivision, include_national, include_regional) ==
    LET is_regional == subdivision \in SeqSet(subdivision_codes)
    IN  IF nationwide /\ include_national
          THEN [include |-> TRUE, tag_type |-> "national"]
        ELSE IF is_regional /\ include_regional
          THEN [include |-> TRUE, tag_type |-> "regional"]
        ELSE [include |-> FALSE, tag_type |-> ""]

Classify(nationwide, subdivision_codes, subdivision, include_national, include_regional) ==
    LET is_regional == subdivision \in SeqSet(subdivision_codes)
    IN  IF nationwide /\ include_national
          THEN [include |-> TRUE, tag_type |-> "national"]
        ELSE IF is_regional /\ include_regional
          THEN [include |-> TRUE, tag_type |-> "regional"]
        ELSE IF ~nationwide /\ subdivision_codes = <<>> /\ include_national
          THEN [include |-> TRUE, tag_type |-> "national"]
        ELSE [include |-> FALSE, tag_type |-> ""]

\* if key in seen: continue
FeiertagSeenByDate(seen, key) == \E k \in seen : k[2] = key[2]

FeiertagSeen(seen, key) == key \in seen

\* the dict appended to feiertage
FeiertagRecord(name, d, tag_type) ==
    [name |-> name, datum |-> isoformat(d),
     wochentag |-> WOCHENTAGE[weekday(d) + 1], typ |-> tag_type]

\* one iteration of "for i, entry in enumerate(data)"; acc = [exc, feiertage,
\* seen, years]
FeiertagEntry(acc, entry, subdivision, include_national, include_regional) ==
    IF ~entry.dict THEN [acc EXCEPT !.exc = Some("AttributeError")]
    ELSE
    LET pd == ParseDate(GetOrEmpty(entry.startDate))
    IN  IF ~pd.ok THEN acc
        ELSE
        LET name == _get_localized_name(entry.name, "Feiertag")
            c == Classify(entry.nationwide, entry.subdivisions, subdivision,
                          include_national, include_regional)
        IN  IF ~c.include THEN acc
            ELSE
            LET years == acc.years \cup {pd.date.year}
                key == << name, isoformat(pd.date) >>
            IN  IF FeiertagSeen(acc.seen, key) THEN [acc EXCEPT !.years = years]
                ELSE [acc EXCEPT !.years = years,
                                 !.seen = @ \cup {key},
                                 !.feiertage = Append(@, FeiertagRecord(name, pd.date, c.tag_type))]

RECURSIVE FeiertageLoop(_, _, _, _, _)
FeiertageLoop(data, acc, subdivision, include_national, include_regional) ==
    IF data = <<>> \/ acc.exc # None THEN acc
    ELSE FeiertageLoop(Tail(data),
                       FeiertagEntry(acc, Head(data), subdivision,
                                     include_national, include_regional),
                       subdivision, include_national, include_regional)

\* fetch_feiertage(hass, bundesland, von, bis, include_national, include_regional)
\*   -> [exc, feiertage, missing]
fetch_feiertage(http, bundesland, von, bis, include_national, include_regional) ==
    LET r == _api_request(http)
    IN  IF r.exc # None THEN [exc |-> r.exc, feiertage |-> <<>>, missing |-> <<>>]
        ELSE IF r.value = None
          THEN [exc |-> None, feiertage |-> <<>>, missing |-> RangeSeq(von.year, bis.year)]
        ELSE
        LET acc == FeiertageLoop(r.value[1],
                                 [exc |-> None, feiertage |-> <<>>, seen |-> {}, years |-> {}],
                                 Subdivision(bundesland), include_national, include_regional)
        IN  IF acc.exc # None THEN [exc |-> acc.exc, feiertage |-> <<>>, missing |-> <<>>]
            ELSE [exc |-> None,
                  feiertage |-> SortByDatum(acc.feiertage),
                  missing |-> MissingYears(von, bis, acc.years)]

(***************************************************************************)
(* const.py / coordinator.py                                               *)
(***************************************************************************)
YEARS_AHEAD == 3

\* _compute_date_range() with today = date.today()
ComputeDateRangeFromSeptember(today) ==
    LET start_year == IF today.month >= 9 THEN today.year ELSE today.year - 1
    IN  [von |-> Date(start_year, 8, 1),
         bis |-> Date(today.year + YEARS_AHEAD, 9, 30)]

_compute_date_range(today) ==
    LET start_year == IF today.month >= 8 THEN today.year ELSE today.year - 1
    IN  [von |-> Date(start_year, 8, 1),
         bis |-> Date(today.year + YEARS_AHEAD, 9, 30)]

\* date.fromisoformat of a string the integration wrote itself with isoformat
D(s) == fromisoformat(s).date

\* f_start <= today <= f_end  (datetime.date comparison, line 203)
InPeriodDateStrict(f, today) == DateLT(D(f.start), today) /\ DateLE(today, D(f.end))

InPeriodDate(f, today) == DateLE(D(f.start), today) /\ DateLE(today, D(f.end))

\* f["start"] <= today_str <= f["end"]  (str comparison, line 225)
InPeriodStr(f, today_str) == StrLE(f.start, today_str) /\ StrLE(today_str, f.end)

\* "Current / next Ferien": one loop over ferien; acc = [aktuelle_ferien,
\* naechste_ferien, naechste_ferien_start, tage_bis_naechste_ferien]; the
\* loop ends at the first period that contains today (break).
RECURSIVE FerienScan(_, _, _)
FerienScan(ferien, today, acc) ==
    IF ferien = <<>> THEN acc
    ELSE LET f == Head(ferien)
         IN IF InPeriodDate(f, today)
              THEN [acc EXCEPT !.aktuelle_ferien = Some(f.name)]
            ELSE IF DateLT(today, D(f.start)) /\ acc.naechste_ferien = None
              THEN FerienScan(Tail(ferien), today,
                              [acc EXCEPT !.naechste_ferien = Some(f.name),
                                          !.naechste_ferien_start = Some(f.start),
                                          !.tage_bis_naechste_ferien =
                                              Some(DaysBetween(D(f.start), today))])
            ELSE FerienScan(Tail(ferien), today, acc)

\* "Next Feiertag": first ft with ft_date >= today (break)
NextFeiertag(feiertage, today) ==
    LET hits == {i \in 1..Len(feiertage) : DateLE(today, D(feiertage[i].datum))}
    IN  IF hits = {} THEN None
        ELSE Some(feiertage[CHOOSE i \in hits : \A j \in hits : i <= j])

\* "Is today school-free?": [heute_schulfrei, heute_grund]
HeuteFerienOnly(ferien, feiertage, today_str) ==
    LET fhits == {i \in 1..Len(ferien) : InPeriodStr(ferien[i], today_str)}
    IN  IF fhits # {}
          THEN [frei |-> TRUE,
                grund |-> Some(ferien[CHOOSE i \in fhits : \A j \in fhits : i <= j].name)]
        ELSE [frei |-> FALSE, grund |-> None]

Heute(ferien, feiertage, today_str) ==
    LET fhits == {i \in 1..Len(ferien) : InPeriodStr(ferien[i], today_str)}
        thits == {i \in 1..Len(feiertage) : feiertage[i].datum = today_str}
    IN  IF fhits # {}
          THEN [frei |-> TRUE,
                grund |-> Some(ferien[CHOOSE i \in fhits : \A j \in fhits : i <= j].name)]
        ELSE IF thits # {}
          THEN [frei |-> TRUE,
                grund |-> Some(feiertage[CHOOSE i \in thits : \A j \in thits : i <= j].name)]
        ELSE [frei |-> FALSE, grund |-> None]

\* max(date.fromisoformat(f["end"]) for f in ferien).year
LastFerienYear(ferien) ==
    IF ferien = <<>> THEN None
    ELSE LET i == CHOOSE i \in 1..Len(ferien) :
                      \A j \in 1..Len(ferien) : DateLE(D(ferien[j].end), D(ferien[i].end))
         IN Some(D(ferien[i].end).year)

\* The result dict of _async_update_data (lines 159-266).  feiertage is the
\* Optional list (None when the fetch was skipped).
BuildResult(bundesland, ferien, ferien_missing, feiertage, feiertage_missing, yaml_path, von, bis, today) ==
    LET today_str == isoformat(today)
        ft == IF feiertage = None THEN <<>> ELSE feiertage[1]
        scan == FerienScan(ferien, today,
                           [aktuelle_ferien |-> None, naechste_ferien |-> None,
                            naechste_ferien_start |-> None,
                            tage_bis_naechste_ferien |-> None])
        nf == NextFeiertag(ft, today)
        heute == Heute(ferien, ft, today_str)
    IN  [bundesland |-> bundesland,
         ferien_count |-> Len(ferien),
         feiertage_count |-> Len(ft),
         ferien |-> ferien,
         feiertage |-> ft,
         yaml_path |-> yaml_path,
         von |-> isoformat(von),
         bis |-> isoformat(bis),
         aktuelle_ferien |-> scan.aktuelle_ferien,
         naechste_ferien |-> scan.naechste_ferien,
         naechste_ferien_start |-> scan.naechste_ferien_start,
         tage_bis_naechste_ferien |-> scan.tage_bis_naechste_ferien,
         naechster_feiertag |-> IF nf = None THEN None ELSE Some(nf[1].name),
         naechster_feiertag_datum |-> IF nf = None THEN None ELSE Some(nf[1].datum),
         tage_bis_naechster_feiertag |->
             IF nf = None THEN None ELSE Some(DaysBetween(D(nf[1].datum), today)),
         heute_schulfrei |-> heute.frei,
         heute_grund |-> heute.grund,
         ferien_fehlende_jahre |-> ferien_missing,
         feiertage_fehlende_jahre |-> feiertage_missing,
         ferien_daten_bis |-> LastFerienYear(ferien),
         ferien_vollstaendig |-> Len(ferien_missing) = 0,
         feiertage_vollstaendig |-> Len(feiertage_missing) = 0,
         daten_vollstaendig |-> Len(ferien_missing) = 0 /\ Len(feiertage_missing) = 0]

(***************************************************************************)
(* sensor.py                                                               *)
(***************************************************************************)
\* FerienNaechsterFeiertagSensor.native_value for coordinator.data = d
NaechsterFeiertagValue(d) ==
    IF d.naechster_feiertag = None THEN "Unbekannt" ELSE d.naechster_feiertag[1]

\* FerienNaechsterFeiertagSensor.extra_state_attributes: a key is set only
\* when the walrus value is truthy (a non-empty str, a non-zero int)
NaechsterFeiertagAttrs(d) ==
    [datum |-> IF d.naechster_feiertag_datum # None /\ d.naechster_feiertag_datum[1] # <<>>
                 THEN d.naechster_feiertag_datum ELSE None,
     tage_bis |-> IF d.tage_bis_naechster_feiertag # None /\ d.tage_bis_naechster_feiertag[1] # 0
                    THEN d.tage_bis_naechster_feiertag ELSE None]

\* d.get(key, default) on the snapshot dict
Get(d, key, default) == IF key \in DOMAIN d THEN d[key] ELSE default

\* FerienCountSensor.native_value: the counts, and the years of the warning
\* text ("Daten fehlen fuer: ...") or the check mark when the list is empty
UebersichtValue(d) ==
    LET missing == Get(d, "fehlende_jahre", <<>>)
    IN  [ferien_count |-> Get(d, "ferien_count", 0),
         feiertage_count |-> Get(d, "feiertage_count", 0),
         check_mark |-> missing = <<>>,
         jahre |-> missing]

\* FerienCountSensor.extra_state_attributes (the completeness keys)
UebersichtAttrs(d) ==
    [daten_vollstaendig |-> Get(d, "daten_vollstaendig", FALSE),
     fehlende_jahre |-> Get(d, "fehlende_jahre", <<>>)]

\* FerienDatenstatusSensor.native_value: "Vollstaendig", or "Unvollstaendig
\* (<years joined by ', '>)"
DatenstatusValue(d) ==
    IF Get(d, "daten_vollstaendig", FALSE)
    THEN [status |-> "Vollstaendig", jahre |-> <<>>]
    ELSE [status |-> "Unvollstaendig", jahre |-> Get(d, "fehlende_jahre", <<>>)]

\* FerienDatenstatusSensor.extra_state_attributes (the completeness keys)
DatenstatusAttrs(d) ==
    [daten_vollstaendig |-> Get(d, "daten_vollstaendig", FALSE),
     fehlende_jahre |-> Get(d, "fehlende_jahre", <<>>)]

(***************************************************************************)
(* yaml_writer.py                                                          *)
(***************************************************************************)
\* current += timedelta(days=1)
NextDay(d) ==
    IF d.day < DaysInMonth(d.year, d.month) THEN Date(d.year, d.month, d.day + 1)
    ELSE IF d.month < 12 THEN Date(d.year, d.month + 1, 1)
    ELSE Date(d.year + 1, 1, 1)

\* alle_tage[k] = v for the dict alle_tage (a function on its keys)
Put(alle_tage, k, v) ==
    [x \in (DOMAIN alle_tage) \cup {k} |-> IF x = k THEN v ELSE alle_tage[x]]

\* "current.weekday() < 5": Mo-Fr
IsSchoolDayAnyDay(current) == TRUE

IsSchoolDay(current) == weekday(current) < 5

\* the values current takes in "while current <= end" that pass the
\* weekday test (lines 104-108)
RECURSIVE PeriodDays(_, _)
PeriodDays(current, end) ==
    IF ~DateLE(current, end) THEN {}
    ELSE (IF IsSchoolDay(current) THEN {current} ELSE {})
             \cup PeriodDays(NextDay(current), end)

\* for f in ferien: alle_tage[current] = f["name"] for each such day
\* (lines 101-108).  A reason is the sequence of the names that the
\* f-string of line 114 joins with " / ".
RECURSIVE FerienDays(_, _)
FerienDays(ferien, alle_tage) ==
    IF ferien = <<>> THEN alle_tage
    ELSE LET f == Head(ferien)
             days == PeriodDays(D(f.start), D(f.end))
         IN FerienDays(Tail(ferien),
                       [x \in (DOMAIN alle_tage) \cup days |->
                            IF x \in days THEN <<f.name>> ELSE alle_tage[x]])

\* for ft in feiertage  (lines 111-116)
RECURSIVE FeiertageDays(_, _)
FeiertageDays(feiertage, alle_tage) ==
    IF feiertage = <<>> THEN alle_tage
    ELSE LET d == D(Head(feiertage).datum)
         IN FeiertageDays(Tail(feiertage),
                          IF d \in DOMAIN alle_tage
                          THEN Put(alle_tage, d, Append(alle_tage[d], Head(feiertage).name))
                          ELSE Put(alle_tage, d, <<Head(feiertage).name>>))

\* sorted(alle_tage.keys())
RECURSIVE SortedDates(_)
SortedDates(Ds) ==
    IF Ds = {} THEN <<>>
    ELSE LET m == CHOOSE x \in Ds : \A y \in Ds : DateLE(x, y)
         IN <<m>> \o SortedDates(Ds \ {m})

\* the list doc["alle_freien_tage"]  (lines 98-129); feiertage is Optional
Expanded(ferien, feiertage) ==
    LET ft == IF feiertage = None THEN <<>> ELSE feiertage[1]
        alle_tage == FeiertageDays(ft, FerienDays(ferien, <<>>))
        keys == SortedDates(DOMAIN alle_tage)
    IN  [i \in 1..Len(keys) |->
             [datum |-> isoformat(keys[i]),
              wochentag |-> WOCHENTAGE[weekday(keys[i]) + 1],
              grund |-> alle_tage[keys[i]]]]

\* write_ferien_yaml(hass_config_dir, bundesland, ferien, feiertage): the
\* document dumped to the file (without the creation time stamp)
write_ferien_yaml(bundesland, ferien, feiertage) ==
    [bundesland |-> bundesland,
     ferien |-> [i \in 1..Len(ferien) |->
                     [name |-> ferien[i].name, von |-> ferien[i].start,
                      bis |-> ferien[i].end]],
     feiertage |-> IF feiertage = None \/ feiertage = Some(<<>>) THEN None ELSE feiertage,
     alle_freien_tage |-> Expanded(ferien, feiertage)]

(***************************************************************************)
(* The inputs the model enumerates                                         *)
(***************************************************************************)
S(y, m, d) == JStr(isoformat(Date(y, m, d)))
DE(text) == [language |-> "DE", text |-> Some(text)]
EN(text) == [language |-> "EN", text |-> Some(text)]

\* date.today() takes these values, in this order
TodayDates ==
    << Date(2025, 12, 24), Date(2025, 12, 25), Date(2026, 1, 6), Date(2026, 3, 30) >>

\* the configured region (CONF_BUNDESLAND)
Bundeslaender == {"BY"}

FerienObj(start, end, name) ==
    [dict |-> TRUE, startDate |-> start, endDate |-> end, name |-> name]

NotAnObject == [dict |-> FALSE, startDate |-> JAbsent, endDate |-> JAbsent, name |-> <<>>]

Weihnachtsferien2025 ==
    FerienObj(S(2025, 12, 22), S(2026, 1, 5),
              <<EN("Christmas holidays"), DE("Weihnachtsferien")>>)
Osterferien2026 == FerienObj(S(2026, 3, 30), S(2026, 4, 10), <<EN("Easter holidays")>>)
Weihnachtsferien2027 == FerienObj(S(2027, 12, 24), S(2028, 1, 7), <<DE("Weihnachtsferien")>>)

\* records of the SchoolHolidays feed
FerienEntries ==
    { FerienObj(S(2025, 6, 10), S(2025, 6, 20), <<DE("Pfingstferien")>>),
      FerienObj(S(2025, 7, 28), S(2025, 9, 8), <<DE("Sommerferien")>>),
      Weihnachtsferien2025,
      FerienObj(S(2025, 12, 22), S(2025, 12, 24), <<>>),
      Osterferien2026,
      Weihnachtsferien2027,
      FerienObj(JStr(<<2, 0, 2, 6, 0, 2, 3, 0>>), S(2026, 3, 6), <<DE("Winterferien")>>),
      FerienObj(S(2026, 5, 26), JAbsent, <<DE("Pfingstferien")>>),
      FerienObj(JInt, JNull, <<DE("Herbstferien")>>),
      NotAnObject }

FeiertagObj(start, name, nationwide, subdivisions) ==
    [dict |-> TRUE, startDate |-> start, name |-> name,
     nationwide |-> nationwide, subdivisions |-> subdivisions]

NotAnObjectFt ==
    [dict |-> FALSE, startDate |-> JAbsent, name |-> <<>>,
     nationwide |-> FALSE, subdivisions |-> <<>>]

Weihnachtstag2025 == FeiertagObj(S(2025, 12, 25), <<DE("1. Weihnachtstag")>>, TRUE, <<>>)
DreiKoenige2026 ==
    FeiertagObj(S(2026, 1, 6), <<DE("Heilige Drei Koenige")>>, FALSE,
                << <<"DE", "BW">>, <<"DE", "BY">> >>)

\* records of the PublicHolidays feed
FeiertagEntries ==
    { Weihnachtstag2025,
      FeiertagObj(S(2025, 12, 25), <<DE("1. Weihnachtstag")>>, FALSE, << <<"DE", "BY">> >>),
      DreiKoenige2026,
      FeiertagObj(S(2026, 3, 8), <<DE("Internationaler Frauentag")>>, FALSE,
                  << <<"DE", "BE">> >>),
      FeiertagObj(S(2028, 1, 1), <<DE("Neujahr")>>, FALSE, <<>>),
      FeiertagObj(S(2024, 10, 3), <<DE("Tag der Deutschen Einheit")>>, TRUE,
                  << <<"DE", "BY">> >>),
      FeiertagObj(S(2025, 12, 25), <<EN("Christmas Day")>>, TRUE, << <<"DE", "BE">> >>),
      FeiertagObj(JStr(<<>>), <<DE("Ostermontag")>>, TRUE, <<>>),
      FeiertagObj(JNull, <<DE("Pfingstmontag")>>, TRUE, <<>>),
      NotAnObjectFt }

SeqsUpTo(E, n) == UNION {[1..k -> E] : k \in 0..n}

\* the outcomes of one HTTP request whose JSON list is drawn from Bodies
HttpOutcomes(Bodies) ==
    {[kind |-> "ok", body |-> b] : b \in Bodies}
        \cup {[kind |-> k, body |-> <<>>] : k \in HttpKinds \ {"ok"}}

\* every response of at most MaxRecords records
AllFerienHttp == HttpOutcomes(SeqsUpTo(FerienEntries, MaxRecords))
AllFeiertageHttp == HttpOutcomes(SeqsUpTo(FeiertagEntries, MaxRecords))

\* the responses replayed over repeated refresh cycles
CycleFerienHttp ==
    HttpOutcomes({ <<Weihnachtsferien2025, Osterferien2026>>,
                   <<Weihnachtsferien2025, Weihnachtsferien2027>>,
                   <<NotAnObject>> })
CycleFeiertageHttp ==
    HttpOutcomes({ <<Weihnachtstag2025, DreiKoenige2026>>, <<NotAnObjectFt>> })

(***************************************************************************)
(* State                                                                   *)
(***************************************************************************)
VARIABLES
    clock,               \* index into TodayDates: the value of date.today()
    bundesland,          \* FerienCoordinator.bundesland
    include_national,    \* FerienCoordinator.include_national
    include_regional,    \* FerienCoordinator.include_regional
    last_yaml_path,      \* FerienCoordinator.last_yaml_path
    data,                \* DataUpdateCoordinator.data: the published snapshot
    last_update_success, \* DataUpdateCoordinator.last_update_success
    last_exception,      \* DataUpdateCoordinator.last_exception
    loaded,              \* the entry is set up (first refresh succeeded)
    pc,                  \* position inside _async_update_data, "Idle" outside
    trigger,             \* what started the running / last cycle
    von, bis,            \* locals of _async_update_data
    ferien, ferien_missing,
    feiertage, feiertage_missing,
    today,
    http_ferien,         \* outcome kind of the SchoolHolidays request ("-": none)
    http_feiertage,      \* outcome kind of the PublicHolidays request
    response,            \* "data" of the fetch that has just returned: None
                         \* or Some([feed, body])
    yaml_file,           \* the document in {BL}_Ferien.yaml: None or Some(doc)
    hass_data,           \* hass.data.get(DOMAIN): None, or Some(the entry ids
                         \* that have a coordinator stored)
    services,            \* number of handlers registered as update_ferien
    entry_pc,            \* per config entry: position inside async_setup_entry /
                         \* async_unload_entry, or its state between the calls
    handler              \* the running / last call of _handle_update

coordinator == << bundesland, include_national, include_regional, last_yaml_path,
                  data, last_update_success, last_exception, loaded >>
locals == << von, bis, ferien, ferien_missing, feiertage, feiertage_missing, today,
             http_ferien, http_feiertage, response >>
hass == << hass_data, services, entry_pc, handler >>
vars == << clock, coordinator, pc, trigger, locals, yaml_file, hass >>

NoDate == Date(1, 1, 1)

\* the config entries of the domain
Entries == 1..MaxEntries

\* no service call yet
HandlerIdle == [pc |-> "idle", keys |-> {}, visited |-> {}]

InitHass ==
    /\ hass_data = None
    /\ services = 0
    /\ entry_pc = [e \in Entries |-> "not_loaded"]
    /\ handler = HandlerIdle

Init ==
    /\ clock = 1
    /\ bundesland \in Bundeslaender
    /\ include_national \in BOOLEAN
    /\ include_regional \in BOOLEAN
    /\ last_yaml_path = None
    /\ data = None
    /\ last_update_success = TRUE
    /\ last_exception = None
    /\ loaded = FALSE
    /\ pc = "Idle"
    /\ trigger = "-"
    /\ von = NoDate /\ bis = NoDate
    /\ ferien = <<>> /\ ferien_missing = <<>>
    /\ feiertage = None /\ feiertage_missing = <<>>
    /\ today = NoDate
    /\ http_ferien = "-" /\ http_feiertage = "-"
    /\ response = None
    /\ yaml_file = None
    /\ InitHass

(***************************************************************************)
(* Actions                                                                 *)
(***************************************************************************)
\* time passes: date.today() moves on.  The clock is read on entry (line 39)
\* and at line 160 only, so a day change anywhere inside a cycle is the same
\* as one right before line 160.
Tick ==
    /\ pc \in {"Idle", "build_result"}
    /\ clock < Len(TodayDates)
    /\ clock' = clock + 1
    /\ UNCHANGED << coordinator, pc, trigger, locals, yaml_file, hass >>

\* entry of _async_update_data (lines 94-99): von, bis = _compute_date_range()
BeginUpdate(by) ==
    LET r == _compute_date_range(TodayDates[clock])
    IN  /\ pc' = "fetch_ferien"
        /\ trigger' = by
        /\ von' = r.von /\ bis' = r.bis
        /\ ferien' = <<>> /\ ferien_missing' = <<>>
        /\ feiertage' = None /\ feiertage_missing' = <<>>
        /\ today' = NoDate
        /\ http_ferien' = "-" /\ http_feiertage' = "-"
        /\ response' = None
        /\ UNCHANGED << hass, yaml_file, clock, yaml_file >>

\* async_setup_entry: FerienCoordinator(hass, entry.data) and
\* async_config_entry_first_refresh()
FirstRefresh ==
    /\ ~loaded /\ pc = "Idle"
    /\ last_yaml_path' = None /\ data' = None
    /\ last_update_success' = TRUE /\ last_exception' = None
    /\ UNCHANGED << bundesland, include_national, include_regional, loaded >>
    /\ BeginUpdate("setup")

\* The model follows one invocation of _async_update_data at a time: a
\* trigger is taken when no cycle runs.  What happens to a trigger that
\* arrives during a cycle is decided inside async_request_refresh, which is
\* Home Assistant's and not part of this integration.

\* update_interval = DEFAULT_SCAN_INTERVAL: the periodic refresh
TimerFires ==
    /\ loaded /\ pc = "Idle"
    /\ UNCHANGED coordinator
    /\ BeginUpdate("timer")

\* FerienUpdateButton.async_press: coordinator.async_request_refresh()
async_press ==
    /\ loaded /\ pc = "Idle"
    /\ UNCHANGED coordinator
    /\ BeginUpdate("button")

\* _handle_update (service update_ferien): async_request_refresh()
_handle_update ==
    /\ loaded /\ pc = "Idle"
    /\ UNCHANGED coordinator
    /\ BeginUpdate("service")

\* except Exception as err: raise UpdateFailed(...) from err  (lines 150-157);
\* the base class records the failure and keeps self.data
UpdateFailedPublishesEmpty(err) ==
    /\ pc' = "Idle"
    /\ last_update_success' = FALSE
    /\ last_exception' = Some(err)
    /\ data' = None
    /\ UNCHANGED << bundesland, include_national, include_regional, last_yaml_path, loaded >>

UpdateFailed(err) ==
    /\ pc' = "Idle"
    /\ last_update_success' = FALSE
    /\ last_exception' = Some(err)
    /\ UNCHANGED << bundesland, include_national, include_regional, last_yaml_path,
                    data, loaded >>

\* ferien, ferien_missing = await fetch_ferien(...)  (lines 102-110)
FetchFerien(Https) ==
    /\ pc = "fetch_ferien"
    /\ \E http \in Https :
         LET r == fetch_ferien(http, von, bis)
         IN  /\ http_ferien' = http.kind
             /\ response' = IF http.kind = "ok"
                               THEN Some([feed |-> "ferien", body |-> http.body])
                               ELSE None
             /\ IF r.exc # None
                  THEN /\ UpdateFailed(r.exc[1])
                       /\ UNCHANGED << ferien, ferien_missing >>
                  ELSE /\ ferien' = r.ferien
                       /\ ferien_missing' = r.missing
                       /\ pc' = "ferien_result"
                       /\ UNCHANGED coordinator
    /\ UNCHANGED << hass, yaml_file, clock, trigger, von, bis, feiertage, feiertage_missing, today,
                    http_feiertage >>

\* back in _async_update_data with the Ferien result (lines 107-114)
FerienResult ==
    /\ pc = "ferien_result"
    /\ pc' = "fetch_feiertage"
    /\ response' = None
    /\ UNCHANGED << hass, yaml_file, clock, coordinator, trigger, von, bis, ferien, ferien_missing,
                    feiertage, feiertage_missing, today, http_ferien, http_feiertage >>

\* if self.include_national or self.include_regional  (line 116)
FeiertageEnabledAlways(national, regional) == TRUE

FeiertageEnabled(national, regional) == national \/ regional

\* the optional Feiertage fetch (lines 112-136)
FetchFeiertage(Https) ==
    /\ pc = "fetch_feiertage"
    /\ FeiertageEnabled(include_national, include_regional)
    /\ \E http \in Https :
         LET r == fetch_feiertage(http, bundesland, von, bis,
                                  include_national, include_regional)
         IN  /\ http_feiertage' = http.kind
             /\ response' = IF http.kind = "ok"
                               THEN Some([feed |-> "feiertage", body |-> http.body])
                               ELSE None
             /\ IF r.exc # None
                  THEN /\ UpdateFailed(r.exc[1])
                       /\ UNCHANGED << feiertage, feiertage_missing >>
                  ELSE /\ feiertage' = Some(r.feiertage)
                       /\ feiertage_missing' = r.missing
                       /\ pc' = "feiertage_result"
                       /\ UNCHANGED coordinator
    /\ UNCHANGED << hass, yaml_file, clock, trigger, von, bis, ferien, ferien_missing, today, http_ferien >>

\* back in _async_update_data with the Feiertage result (lines 131-134)
FeiertageResult ==
    /\ pc = "feiertage_result"
    /\ pc' = "write_yaml"
    /\ response' = None
    /\ UNCHANGED << hass, yaml_file, clock, coordinator, trigger, von, bis, ferien, ferien_missing,
                    feiertage, feiertage_missing, today, http_ferien, http_feiertage >>

\* else: "Feiertage disabled, skipping"
SkipFeiertage ==
    /\ pc = "fetch_feiertage"
    /\ ~FeiertageEnabled(include_national, include_regional)
    /\ pc' = "write_yaml"
    /\ UNCHANGED << hass, yaml_file, clock, coordinator, trigger, locals >>

\* self.last_yaml_path = await async_add_executor_job(write_ferien_yaml, ...)
\* (lines 138-148): the write replaces the file and returns its path, or
\* open() raises OSError and the file stays as it was
WriteYaml ==
    /\ pc = "write_yaml"
    /\ \/ /\ yaml_file' = Some(write_ferien_yaml(bundesland, ferien, feiertage))
          /\ last_yaml_path' = Some(bundesland)
          /\ pc' = "build_result"
          /\ UNCHANGED << bundesland, include_national, include_regional, data,
                          last_update_success, last_exception, loaded >>
       \/ /\ UpdateFailed("OSError")
          /\ UNCHANGED yaml_file
    /\ UNCHANGED << clock, trigger, locals, hass >>

\* lines 159-266: today = date.today(), build the result dict, return it;
\* the base class stores it as self.data
ReturnResult ==
    /\ pc = "build_result"
    /\ today' = TodayDates[clock]
    /\ data' = Some(BuildResult(bundesland, ferien, ferien_missing, feiertage,
                                feiertage_missing, last_yaml_path, von, bis,
                                TodayDates[clock]))
    /\ last_update_success' = TRUE
    /\ last_exception' = None
    /\ loaded' = TRUE
    /\ pc' = "Idle"
    /\ UNCHANGED << hass, yaml_file, clock, bundesland, include_national, include_regional, last_yaml_path,
                    trigger, von, bis, ferien, ferien_missing, feiertage,
                    feiertage_missing, http_ferien, http_feiertage, response >>

(***************************************************************************)
(* Specifications                                                          *)
(***************************************************************************)
\* the coordinator over repeated refresh cycles
Next ==
    \/ Tick
    \/ FirstRefresh
    \/ TimerFires
    \/ async_press
    \/ _handle_update
    \/ FetchFerien(CycleFerienHttp)
    \/ FerienResult
    \/ FetchFeiertage(CycleFeiertageHttp)
    \/ FeiertageResult
    \/ SkipFeiertage
    \/ WriteYaml
    \/ ReturnResult

Spec == Init /\ [][Next]_vars

\* the day changes between the awaits of a running cycle and line 160
TickInCycle == pc = "build_result" /\ Tick

\* the first refresh alone, started on the first of TodayDates, over every
\* source response within the bounds
NextFetch ==
    \/ TickInCycle
    \/ FirstRefresh
    \/ FetchFerien(AllFerienHttp)
    \/ FerienResult
    \/ FetchFeiertage(AllFeiertageHttp)
    \/ FeiertageResult
    \/ SkipFeiertage
    \/ WriteYaml
    \/ ReturnResult

SpecFetch == Init /\ [][NextFetch]_vars

\* _compute_date_range alone, for every day of RangeYears years as today
FirstYear == 2023

AllDays ==
    {Date(y, m, d) : y \in FirstYear..(FirstYear + RangeYears - 1), m \in 1..12, d \in 1..31}

InitRange ==
    /\ clock = 1
    /\ bundesland \in Bundeslaender
    /\ include_national = TRUE /\ include_regional = TRUE
    /\ last_yaml_path = None /\ data = None
    /\ last_update_success = TRUE /\ last_exception = None
    /\ loaded = FALSE
    /\ pc = "Idle" /\ trigger = "-"
    /\ von = NoDate /\ bis = NoDate
    /\ ferien = <<>> /\ ferien_missing = <<>>
    /\ feiertage = None /\ feiertage_missing = <<>>
    /\ today \in {d \in AllDays : d.day <= DaysInMonth(d.year, d.month)}
    /\ http_ferien = "-" /\ http_feiertage = "-"
    /\ response = None
    /\ yaml_file = None
    /\ InitHass

\* von, bis = _compute_date_range()  (line 96), date.today() being today
ComputeDateRange ==
    /\ pc = "Idle"
    /\ pc' = "fetch_ferien"
    /\ von' = _compute_date_range(today).von
    /\ bis' = _compute_date_range(today).bis
    /\ UNCHANGED << clock, coordinator, trigger, ferien, ferien_missing, feiertage,
                    feiertage_missing, today, http_ferien, http_feiertage, response,
                    yaml_file, hass >>

NextRange == ComputeDateRange

SpecRange == InitRange /\ [][NextRange]_vars

(***************************************************************************)
(* __init__.py: async_setup_entry / async_unload_entry over the config     *)
(* entries of the domain.  Each entry has a coordinator of its own; its    *)
(* first refresh is taken here by its two outcomes (a result, or           *)
(* UpdateFailed, which async_config_entry_first_refresh raises as          *)
(* ConfigEntryNotReady).  A coordinator is named by its entry id.          *)
(***************************************************************************)
\* the coordinators in hass.data[DOMAIN]
Stored == IF hass_data = None THEN {} ELSE hass_data[1]

\* hass.services.has_service(DOMAIN, "update_ferien")
HasServiceNever(registered) == FALSE

has_service(registered) == registered > 0

\* the rest of the model stands still while entries are set up and unloaded
CoordinatorIdle == UNCHANGED << clock, coordinator, pc, trigger, locals, yaml_file >>

\* async_setup_entry, lines 20-23: setdefault, create the coordinator, await
\* its first refresh
SetupEntry(e) ==
    /\ entry_pc[e] = "not_loaded"
    /\ hass_data' = IF hass_data = None THEN Some({}) ELSE hass_data
    /\ entry_pc' = [entry_pc EXCEPT ![e] = "first_refresh"]
    /\ UNCHANGED << services, handler >>
    /\ CoordinatorIdle

\* line 23 raises: the entry is not set up, nothing is stored or registered
FirstRefreshFailed(e) ==
    /\ entry_pc[e] = "first_refresh"
    /\ entry_pc' = [entry_pc EXCEPT ![e] = "not_loaded"]
    /\ UNCHANGED << hass_data, services, handler >>
    /\ CoordinatorIdle

\* lines 25-27: store the coordinator, await the platform setups
FirstRefreshDone(e) ==
    /\ entry_pc[e] = "first_refresh"
    /\ hass_data' = Some(Stored \cup {e})
    /\ entry_pc' = [entry_pc EXCEPT ![e] = "forward_setups"]
    /\ UNCHANGED << services, handler >>
    /\ CoordinatorIdle

\* lines 30-40: register the service unless it is registered
PlatformsForwarded(e) ==
    /\ entry_pc[e] = "forward_setups"
    /\ services' = IF ~has_service(services) THEN services + 1 ELSE services
    /\ entry_pc' = [entry_pc EXCEPT ![e] = "loaded"]
    /\ UNCHANGED << hass_data, handler >>
    /\ CoordinatorIdle

\* async_unload_entry, line 45: await async_unload_platforms
UnloadEntry(e) ==
    /\ entry_pc[e] = "loaded"
    /\ entry_pc' = [entry_pc EXCEPT ![e] = "unload_platforms"]
    /\ UNCHANGED << hass_data, services, handler >>
    /\ CoordinatorIdle

\* lines 46-53: pop the coordinator when the platforms unloaded, remove the
\* service when no coordinator is left
PlatformsUnloaded(e) ==
    /\ entry_pc[e] = "unload_platforms"
    /\ \E ok \in BOOLEAN :
         LET left == IF ok THEN Stored \ {e} ELSE Stored
         IN  /\ hass_data' = Some(left)
             /\ services' = IF left = {} THEN 0 ELSE services
             /\ entry_pc' = [entry_pc EXCEPT ![e] = IF ok THEN "not_loaded"
                                                    ELSE "failed_unload"]
    /\ UNCHANGED handler
    /\ CoordinatorIdle

\* the service update_ferien is called: _handle_update starts to iterate
\* over hass.data[DOMAIN].items()  (line 33)
CallService ==
    /\ has_service(services)
    /\ handler.pc # "iterating"
    /\ handler' = [pc |-> "iterating", keys |-> Stored, visited |-> {}]
    /\ UNCHANGED << hass_data, services, entry_pc >>
    /\ CoordinatorIdle

\* one turn of the loop of _handle_update (lines 33-35): the dict iterator
\* raises RuntimeError when the dict changed its size since the loop began;
\* else the next coordinator gets async_request_refresh(), or the loop ends
HandleUpdateStep ==
    /\ handler.pc = "iterating"
    /\ IF Cardinality(Stored) # Cardinality(handler.keys)
         THEN handler' = [handler EXCEPT !.pc = "RuntimeError"]
       ELSE IF Stored \ handler.visited = {}
         THEN handler' = [handler EXCEPT !.pc = "done"]
       ELSE \E c \in Stored \ handler.visited :
                handler' = [handler EXCEPT !.visited = @ \cup {c}]
    /\ UNCHANGED << hass_data, services, entry_pc >>
    /\ CoordinatorIdle

NextSetup ==
    \/ \E e \in Entries : SetupEntry(e)
    \/ \E e \in Entries : FirstRefreshFailed(e)
    \/ \E e \in Entries : FirstRefreshDone(e)
    \/ \E e \in Entries : PlatformsForwarded(e)
    \/ \E e \in Entries : UnloadEntry(e)
    \/ \E e \in Entries : PlatformsUnloaded(e)
    \/ CallService
    \/ HandleUpdateStep

SpecSetup == Init /\ [][NextSetup]_vars

(***************************************************************************)
(* Properties                                                              *)
(***************************************************************************)
\* the body of the response fetch_ferien / fetch_feiertage has just processed
FerienBody == response[1].body
FerienReturned == pc = "ferien_result" /\ response # None
FeiertageReturned == pc = "feiertage_result" /\ response # None

\* a SchoolHolidays record with two well-formed ISO dates, and the period it states
FerienParsable(e) ==
    /\ e.dict
    /\ e.startDate.t = "str" /\ fromisoformat(e.startDate.s).ok
    /\ e.endDate.t = "str" /\ fromisoformat(e.endDate.s).ok

SourcePeriod(e) ==
    [name |-> _get_localized_name(e.name, "Ferien"),
     start |-> e.startDate.s, end |-> e.endDate.s]

\* a PublicHolidays record with a well-formed ISO date
FeiertagParsable(e) == e.dict /\ e.startDate.t = "str" /\ fromisoformat(e.startDate.s).ok

\* ... that the two toggles accept for the configured region
FeiertagAccepted(e) ==
    /\ FeiertagParsable(e)
    /\ \/ include_national /\ (e.nationwide \/ e.subdivisions = <<>>)
       \/ include_regional /\ Subdivision(bundesland) \in SeqSet(e.subdivisions)

SourceDayKey(e) == << _get_localized_name(e.name, "Feiertag"), e.startDate.s >>

YearOfStr(s) == s[1] * 1000 + s[2] * 100 + s[3] * 10 + s[4]

WindowYears == von.year..bis.year

FeiertageBody == response[1].body
FerienKey(f) == << f.name, f.start, f.end >>
FeiertagKey(ft) == << ft.name, ft.datum >>

\* index of the first record of the body that states the given period / day
FirstPeriodIndex(body, key) ==
    LET c == {j \in 1..Len(body) :
                  FerienParsable(body[j]) /\ FerienKey(SourcePeriod(body[j])) = key}
    IN  CHOOSE j \in c : \A k \in c : j <= k

FirstAcceptedDay(body, key) ==
    LET c == {j \in 1..Len(body) : FeiertagAccepted(body[j]) /\ SourceDayKey(body[j]) = key}
    IN  body[CHOOSE j \in c : \A k \in c : j <= k]

\* the kind an accepted record is emitted with
KindOf(e) ==
    IF include_national /\ (e.nationwide \/ e.subdivisions = <<>>)
    THEN "national" ELSE "regional"

\* C2: the period list holds no two entries with the same (name, start, end)
\* and the holiday-day list no two with the same (name, date); of several
\* source records with one key the first in source order is the one kept
\* (it fixes the entry's place among equal start dates, and the day's kind).
C2_NoDuplicateKeys ==
    /\ \A i, j \in 1..Len(ferien) : i # j => FerienKey(ferien[i]) # FerienKey(ferien[j])
    /\ feiertage # None =>
         \A i, j \in 1..Len(feiertage[1]) :
             i # j => FeiertagKey(feiertage[1][i]) # FeiertagKey(feiertage[1][j])
    /\ FerienReturned =>
         /\ \A j \in 1..Len(FerienBody) :
                FerienParsable(FerienBody[j]) =>
                    \E i \in 1..Len(ferien) : ferien[i] = SourcePeriod(FerienBody[j])
         /\ \A i, j \in 1..Len(ferien) :
                (i < j /\ ferien[i].start = ferien[j].start) =>
                    FirstPeriodIndex(FerienBody, FerienKey(ferien[i]))
                        < FirstPeriodIndex(FerienBody, FerienKey(ferien[j]))
    /\ FeiertageReturned =>
         /\ \A j \in 1..Len(FeiertageBody) :
                FeiertagAccepted(FeiertageBody[j]) =>
                    \E i \in 1..Len(feiertage[1]) :
                        FeiertagKey(feiertage[1][i]) = SourceDayKey(FeiertageBody[j])
         /\ \A i \in 1..Len(feiertage[1]) :
                feiertage[1][i].typ =
                    KindOf(FirstAcceptedDay(FeiertageBody, FeiertagKey(feiertage[1][i])))

\* two accepted source records with one key but different kinds, one entry kept
C2_Witness ==
    /\ FeiertageReturned
    /\ Len(feiertage[1]) = 1
    /\ \E i, j \in 1..Len(FeiertageBody) :
           /\ i < j
           /\ FeiertagAccepted(FeiertageBody[i]) /\ FeiertagAccepted(FeiertageBody[j])
           /\ SourceDayKey(FeiertageBody[i]) = SourceDayKey(FeiertageBody[j])
           /\ KindOf(FeiertageBody[i]) # KindOf(FeiertageBody[j])

Ascending(l) == \A i, j \in 1..Len(l) : i < j => l[i] < l[j]

FerienSourceYears(body) ==
    UNION {{YearOfStr(body[j].startDate.s), YearOfStr(body[j].endDate.s)} :
               j \in {k \in 1..Len(body) : FerienParsable(body[k])}}

\* C3 (as stated): for each feed the missing years are the years of the
\* window minus the years seen in the source's parsable records.
C3_MissingYearsFromParsable ==
    /\ FerienReturned =>
         SeqSet(ferien_missing) = WindowYears \ FerienSourceYears(FerienBody)
    /\ FeiertageReturned =>
         SeqSet(feiertage_missing) =
             WindowYears \ {YearOfStr(FeiertageBody[j].startDate.s) :
                                j \in {k \in 1..Len(FeiertageBody) :
                                           FeiertagParsable(FeiertageBody[k])}}

\* C3 (amended): as stated for periods; for holiday-days the years counted
\* are those of the parsable records the two toggles accept.  The list is
\* ascending.
C3_MissingYears ==
    /\ Ascending(ferien_missing) /\ Ascending(feiertage_missing)
    /\ FerienReturned =>
         SeqSet(ferien_missing) = WindowYears \ FerienSourceYears(FerienBody)
    /\ FeiertageReturned =>
         SeqSet(feiertage_missing) =
             WindowYears \ {YearOfStr(FeiertageBody[j].startDate.s) :
                                j \in {k \in 1..Len(FeiertageBody) :
                                           FeiertagAccepted(FeiertageBody[k])}}

\* a parsable holiday-day the toggles reject, its year reported missing,
\* while another year of the window has data
C3_Witness ==
    /\ FeiertageReturned
    /\ SeqSet(feiertage_missing) # WindowYears
    /\ \E j \in 1..Len(FeiertageBody) :
           /\ FeiertagParsable(FeiertageBody[j])
           /\ ~FeiertagAccepted(FeiertageBody[j])
           /\ YearOfStr(FeiertageBody[j].startDate.s) \in SeqSet(feiertage_missing)

\* the request of a feed failed: any outcome but HTTP 200 with a JSON list
NetworkFailed(kind) == kind \notin {"-", "ok"}

AllWindowYears(l) == Ascending(l) /\ SeqSet(l) = WindowYears

\* the cycle that ran last ended with a published snapshot
Published == pc = "Idle" /\ trigger # "-" /\ last_update_success /\ data # None

\* C4: a failed request of a feed yields an empty list with every year of
\* the window missing; the cycle goes on, and when it ends failed the cause
\* is a record that is no JSON object (in a response that did arrive) or
\* the YAML write, never the failed request; when it ends well the snapshot
\* carries the empty list and the missing years.
C4_NetworkFailureNotFatal ==
    /\ NetworkFailed(http_ferien) =>
         ferien = <<>> /\ AllWindowYears(ferien_missing)
    /\ NetworkFailed(http_feiertage) =>
         feiertage = Some(<<>>) /\ AllWindowYears(feiertage_missing)
    /\ (pc = "Idle" /\ ~last_update_success) =>
         /\ last_exception \in {Some("AttributeError"), Some("OSError")}
         /\ last_exception = Some("AttributeError") =>
              IF http_feiertage = "-" THEN http_ferien = "ok" ELSE http_feiertage = "ok"
    /\ Published =>
         /\ NetworkFailed(http_ferien) =>
              /\ data[1].ferien = <<>> /\ data[1].ferien_count = 0
              /\ AllWindowYears(data[1].ferien_fehlende_jahre)
              /\ ~data[1].daten_vollstaendig
         /\ NetworkFailed(http_feiertage) =>
              /\ data[1].feiertage = <<>> /\ data[1].feiertage_count = 0
              /\ AllWindowYears(data[1].feiertage_fehlende_jahre)
              /\ ~data[1].daten_vollstaendig

\* both requests of a cycle failed, the YAML was written and a snapshot published
C4_Witness ==
    /\ Published
    /\ NetworkFailed(http_ferien) /\ NetworkFailed(http_feiertage)
    /\ last_yaml_path # None
    /\ data[1].ferien = <<>>

\* C5: a cycle that ends failed leaves the published snapshot as it was, and
\* the snapshot changes only when a cycle returns its result.
C5_FailedCycleKeepsSnapshot ==
    [][ /\ (pc # "Idle" /\ pc' = "Idle" /\ ~last_update_success') => data' = data
        /\ data' # data =>
             /\ pc = "build_result" /\ pc' = "Idle" /\ last_update_success'
             /\ data' = Some(BuildResult(bundesland, ferien, ferien_missing, feiertage,
                                         feiertage_missing, last_yaml_path, von, bis, today'))
      ]_vars

\* a failed cycle after a successful one: the earlier snapshot is still published
C5_Witness ==
    /\ pc = "Idle" /\ ~last_update_success
    /\ loaded /\ data # None
    /\ trigger \in {"timer", "button", "service"}

Min(I) == CHOOSE i \in I : \A j \in I : i <= j

\* periods of the snapshot d that contain t / start after t, by day number
PeriodsContaining(d, t) ==
    {i \in 1..Len(d.ferien) :
         /\ toordinal(D(d.ferien[i].start)) <= toordinal(t)
         /\ toordinal(t) <= toordinal(D(d.ferien[i].end))}

PeriodsAfter(d, t) ==
    {i \in 1..Len(d.ferien) : toordinal(D(d.ferien[i].start)) > toordinal(t)}

DaysOn(d, t) == {i \in 1..Len(d.feiertage) : D(d.feiertage[i].datum) = t}

DaysFrom(d, t) ==
    {i \in 1..Len(d.feiertage) : toordinal(D(d.feiertage[i].datum)) >= toordinal(t)}

\* C7: the published next period is the first period in list order with
\* start > today, null exactly when there is none, with days-until =
\* start - today >= 1; also when today lies inside some period.
C7_NextPeriod ==
    Published =>
        LET d == data[1]
            after == PeriodsAfter(d, today)
        IN  IF after = {}
              THEN d.naechste_ferien = None /\ d.tage_bis_naechste_ferien = None
              ELSE LET f == d.ferien[Min(after)]
                   IN /\ d.naechste_ferien = Some(f.name)
                      /\ d.naechste_ferien_start = Some(f.start)
                      /\ d.tage_bis_naechste_ferien =
                             Some(toordinal(D(f.start)) - toordinal(today))
                      /\ d.tage_bis_naechste_ferien[1] >= 1

\* C8: today-is-free is true exactly when today lies in the inclusive range
\* of some period or is the date of some holiday-day; the reason is the name
\* of the first such period, else of the first such holiday-day, and is
\* null exactly when today is not free.
C8_HeuteSchulfrei ==
    Published =>
        LET d == data[1]
            inP == PeriodsContaining(d, today)
            onD == DaysOn(d, today)
        IN  /\ d.heute_schulfrei <=> (inP # {} \/ onD # {})
            /\ d.heute_grund =
                   IF inP # {} THEN Some(d.ferien[Min(inP)].name)
                   ELSE IF onD # {} THEN Some(d.feiertage[Min(onD)].name)
                   ELSE None
            /\ d.heute_grund = None <=> ~d.heute_schulfrei

\* today is free because of a holiday-day alone
C8_Witness ==
    /\ Published
    /\ data[1].heute_schulfrei
    /\ PeriodsContaining(data[1], today) = {}
    /\ data[1].ferien # <<>>

\* C9: the current period is the first period in list order that contains
\* today, null when none does; when it is set, today-is-free is true with
\* the current period's name as the reason.
C9_CurrentPeriod ==
    Published =>
        LET d == data[1]
            inP == PeriodsContaining(d, today)
        IN  /\ d.aktuelle_ferien =
                   IF inP = {} THEN None ELSE Some(d.ferien[Min(inP)].name)
            /\ d.aktuelle_ferien # None <=> inP # {}
            /\ d.aktuelle_ferien # None =>
                   d.heute_schulfrei /\ d.heute_grund = d.aktuelle_ferien

\* two periods contain today (one of them starts or ends today): the first is current
C9_Witness ==
    /\ Published
    /\ Cardinality(PeriodsContaining(data[1], today)) = 2
    /\ data[1].aktuelle_ferien = Some(data[1].ferien[1].name)
    /\ data[1].ferien[1].name # data[1].ferien[2].name

\* C10: the published next holiday-day is the first day in list order with
\* date >= today, null exactly when there is none; its days-until, in the
\* snapshot and as the sensor's tage_bis attribute, is date - today >= 0,
\* and 0 when the holiday is today.
C10_NextHoliday ==
    Published =>
        LET d == data[1]
            from == DaysFrom(d, today)
        IN  IF from = {}
              THEN /\ d.naechster_feiertag = None
                   /\ NaechsterFeiertagValue(d) = "Unbekannt"
                   /\ NaechsterFeiertagAttrs(d).tage_bis = None
              ELSE LET ft == d.feiertage[Min(from)]
                       days == toordinal(D(ft.datum)) - toordinal(today)
                   IN /\ d.naechster_feiertag = Some(ft.name)
                      /\ d.naechster_feiertag_datum = Some(ft.datum)
                      /\ d.tage_bis_naechster_feiertag = Some(days)
                      /\ days >= 0
                      /\ NaechsterFeiertagValue(d) = ft.name
                      /\ NaechsterFeiertagAttrs(d).datum = Some(ft.datum)
                      /\ NaechsterFeiertagAttrs(d).tage_bis = Some(days)

\* C11: with include-national and include-regional both false no refresh
\* cycle issues the holiday-day request, and the published snapshot has an
\* empty holiday-day list, holiday-day count 0, no missing holiday-day years
\* and holiday-day completeness true.
C11_BothTogglesOff ==
    (~include_national /\ ~include_regional) =>
        /\ http_feiertage = "-"
        /\ pc # "feiertage_result"
        /\ feiertage = None /\ feiertage_missing = <<>>
        /\ data # None =>
             /\ data[1].feiertage = <<>>
             /\ data[1].feiertage_count = 0
             /\ data[1].feiertage_fehlende_jahre = <<>>
             /\ data[1].feiertage_vollstaendig
             /\ data[1].daten_vollstaendig <=> data[1].ferien_fehlende_jahre = <<>>

\* both toggles off, a later cycle published periods and no holiday-days
C11_Witness ==
    /\ ~include_national /\ ~include_regional
    /\ Published /\ trigger = "timer"
    /\ data[1].ferien # <<>>
    /\ data[1].feiertage = <<>>

\* the record of the body at j is the only parsable one with its (name, date)
AloneWithKey(body, j) ==
    \A k \in 1..Len(body) :
        (k # j /\ FeiertagParsable(body[k])) => SourceDayKey(body[k]) # SourceDayKey(body[j])

EmittedAs(e) ==
    {feiertage[1][i].typ :
         i \in {k \in 1..Len(feiertage[1]) : FeiertagKey(feiertage[1][k]) = SourceDayKey(e)}}

\* C12: fetch_feiertage emits a (parsable) source record if and only if
\* (it is nationwide or carries no region list, and include-national is
\* true) or (the queried region is in its region list, and include-regional
\* is true); the emitted kind is national when the record is nationwide or
\* has no region list and include-national is true, regional otherwise; a
\* non-nationwide record whose non-empty region list lacks the queried
\* region is never emitted.
C12_Classification ==
    FeiertageReturned =>
        /\ \A i \in 1..Len(feiertage[1]) :
               \E j \in 1..Len(FeiertageBody) :
                   /\ FeiertagParsable(FeiertageBody[j])
                   /\ SourceDayKey(FeiertageBody[j]) = FeiertagKey(feiertage[1][i])
                   /\ \/ include_national /\ FeiertageBody[j].nationwide
                      \/ include_national /\ FeiertageBody[j].subdivisions = <<>>
                      \/ /\ include_regional
                         /\ Subdivision(bundesland) \in SeqSet(FeiertageBody[j].subdivisions)
        /\ \A j \in 1..Len(FeiertageBody) :
               LET e == FeiertageBody[j]
                   national == include_national /\ (e.nationwide \/ e.subdivisions = <<>>)
                   regional == /\ include_regional
                               /\ Subdivision(bundesland) \in SeqSet(e.subdivisions)
               IN  (FeiertagParsable(e) /\ AloneWithKey(FeiertageBody, j)) =>
                       /\ EmittedAs(e) =
                              IF national THEN {"national"}
                              ELSE IF regional THEN {"regional"}
                              ELSE {}
                       /\ ( /\ ~e.nationwide /\ e.subdivisions # <<>>
                            /\ Subdivision(bundesland) \notin SeqSet(e.subdivisions) ) =>
                               EmittedAs(e) = {}

\* a record without region list that is not nationwide goes out as national,
\* next to a record of another region that is dropped
C12_Witness ==
    /\ FeiertageReturned
    /\ Len(FeiertageBody) = 2 /\ Len(feiertage[1]) = 1
    /\ ~FeiertageBody[1].nationwide /\ FeiertageBody[1].subdivisions = <<>>
    /\ FeiertagParsable(FeiertageBody[1]) /\ FeiertagParsable(FeiertageBody[2])
    /\ ~FeiertageBody[2].nationwide /\ FeiertageBody[2].subdivisions # <<>>
    /\ feiertage[1][1].typ = "national"
    /\ FeiertagKey(feiertage[1][1]) = SourceDayKey(FeiertageBody[1])

\* the export written by the running cycle from its two lists
Exported == pc = "build_result" /\ yaml_file # None
FreeDays == yaml_file[1].alle_freien_tage
HolidayList == IF feiertage = None THEN <<>> ELSE feiertage[1]
Ord(s) == toordinal(D(s))

\* the periods (by index) that cover day number n as a Monday-to-Friday date
PeriodsCovering(n) ==
    {i \in 1..Len(ferien) :
         Ord(ferien[i].start) <= n /\ n <= Ord(ferien[i].end) /\ (n + 6) % 7 < 5}

HolidaysOn(n) == {i \in 1..Len(HolidayList) : Ord(HolidayList[i].datum) = n}

FreeDayNumbers ==
    UNION {{n \in Ord(ferien[i].start)..Ord(ferien[i].end) : (n + 6) % 7 < 5} :
               i \in 1..Len(ferien)}
        \cup {Ord(HolidayList[i].datum) : i \in 1..Len(HolidayList)}

\* one entry per free date, nothing else, ascending by date
OneEntryPerFreeDay ==
    LET free == FreeDayNumbers
        listed == [k \in 1..Len(FreeDays) |-> Ord(FreeDays[k].datum)]
    IN  /\ \A n \in free : Cardinality({k \in 1..Len(listed) : listed[k] = n}) = 1
        /\ \A k \in 1..Len(listed) : listed[k] \in free
        /\ \A k \in 1..(Len(listed) - 1) : listed[k] < listed[k + 1]

\* the names of the holiday-days on day number n, in list order
RECURSIVE HolidayNamesOn(_, _)
HolidayNamesOn(l, n) ==
    IF l = <<>> THEN <<>>
    ELSE (IF Ord(Head(l).datum) = n THEN <<Head(l).name>> ELSE <<>>)
             \o HolidayNamesOn(Tail(l), n)

\* C13 (as stated): the every-free-day section has exactly one entry per
\* Monday-to-Friday date inside a period and per holiday-day date, sorted
\* ascending; an entry's reason is the period name, the holiday name, or
\* "<period-name> / <holiday-name>" when the date is covered by both.
C13_FreeDaysOneReasonEach ==
    Exported =>
        /\ OneEntryPerFreeDay
        /\ \A k \in 1..Len(FreeDays) :
               LET n == Ord(FreeDays[k].datum)
                   P == {ferien[i].name : i \in PeriodsCovering(n)}
                   H == {HolidayList[i].name : i \in HolidaysOn(n)}
               IN  FreeDays[k].grund \in
                       IF P # {} /\ H # {} THEN {<<p, h>> : p \in P, h \in H}
                       ELSE IF P # {} THEN {<<p>> : p \in P}
                       ELSE {<<h>> : h \in H}

\* C13 (amended): as stated, but the reason is the name of the last period
\* in list order that covers the date as a Monday-to-Friday date (if any),
\* followed by the names of all holiday-days on that date in list order,
\* joined by " / ".
C13_FreeDays ==
    Exported =>
        /\ OneEntryPerFreeDay
        /\ \A k \in 1..Len(FreeDays) :
               LET n == Ord(FreeDays[k].datum)
                   P == PeriodsCovering(n)
                   last == CHOOSE i \in P : \A j \in P : j <= i
               IN  FreeDays[k].grund =
                       (IF P = {} THEN <<>> ELSE <<ferien[last].name>>)
                           \o HolidayNamesOn(HolidayList, n)

\* a period with a Saturday in it, and a Thursday in it that is also the
\* date of two holiday-days
C13_Witness ==
    /\ Exported
    /\ Len(ferien) = 1
    /\ \E n \in Ord(ferien[1].start)..Ord(ferien[1].end) :
           (n + 6) % 7 = 5 /\ \A k \in 1..Len(FreeDays) : Ord(FreeDays[k].datum) # n
    /\ \E k \in 1..Len(FreeDays) :
           /\ Len(FreeDays[k].grund) = 3
           /\ FreeDays[k].wochentag = "Donnerstag"

\* C14: a source record that cannot be parsed (missing, empty, non-string
\* or non-ISO date, or a record malformed otherwise) is dropped on its own:
\* every well-formed record of the same response is still emitted, the
\* fetch returns normally, and no refresh cycle fails because of a record
\* (the only failure left is the export write).
C14_UnparsableDroppedAlone ==
    /\ FerienReturned =>
         \A j \in 1..Len(FerienBody) :
             FerienParsable(FerienBody[j]) =>
                 \E i \in 1..Len(ferien) : ferien[i] = SourcePeriod(FerienBody[j])
    /\ FeiertageReturned =>
         \A j \in 1..Len(FeiertageBody) :
             FeiertagAccepted(FeiertageBody[j]) =>
                 \E i \in 1..Len(feiertage[1]) :
                     FeiertagKey(feiertage[1][i]) = SourceDayKey(FeiertageBody[j])
    /\ (response # None /\ pc = "Idle") => last_update_success
    /\ (pc = "Idle" /\ ~last_update_success) => last_exception = Some("OSError")

\* C15: a refresh cycle passes its stages in the order Fetching,
\* Reconciling, Deriving, Exporting: the reconciliation of a feed (dedup,
\* missing years, sort of its records) begins only when both requests have
\* completed (or the holiday-day request is decided to be skipped), and the
\* export write begins only when the derived facts have been computed
\* (today, assigned at line 160, is the first of them).
C15_StageOrder ==
    [][ /\ ( \/ pc = "fetch_ferien" /\ pc' = "ferien_result"
             \/ pc = "fetch_feiertage" /\ pc' = "feiertage_result" ) =>
               /\ http_ferien' # "-"
               /\ http_feiertage' # "-"
                      \/ ~FeiertageEnabled(include_national, include_regional)
        /\ (pc = "write_yaml" /\ pc' = "build_result") => today # NoDate
      ]_vars

\* C16 (as stated): every holiday-day returned by fetch_feiertage lies in
\* the request window, von <= date <= bis.
C16_DaysWithinWindow ==
    feiertage # None =>
        \A i \in 1..Len(feiertage[1]) :
            /\ DateLE(von, D(feiertage[1][i].datum))
            /\ DateLE(D(feiertage[1][i].datum), bis)

\* C16 (amended): the holiday-days returned by fetch_feiertage are exactly
\* the parsable source days that the toggles accept, each with the date the
\* source gave: a day outside the request window is emitted like any other.
C16_DaysAsInSource ==
    FeiertageReturned =>
        {FeiertagKey(feiertage[1][i]) : i \in 1..Len(feiertage[1])} =
            {SourceDayKey(FeiertageBody[j]) :
                 j \in {k \in 1..Len(FeiertageBody) : FeiertagAccepted(FeiertageBody[k])}}

\* a returned holiday-day dated before von
C16_Witness ==
    /\ FeiertageReturned
    /\ \E i \in 1..Len(feiertage[1]) : DateLT(D(feiertage[1][i].datum), von)

\* index of the first accepted record of the body with the given (name, date)
FirstDayIndex(body, key) ==
    LET c == {j \in 1..Len(body) : FeiertagAccepted(body[j]) /\ SourceDayKey(body[j]) = key}
    IN  CHOOSE j \in c : \A k \in c : j <= k

\* C17: the returned period list is ascending by start date and the
\* returned holiday-day list ascending by date, and entries with equal sort
\* key stand in the order in which the source gave them (stable sort).
C17_SortedStable ==
    /\ FerienReturned =>
         \A i, j \in 1..Len(ferien) :
             i < j =>
                 /\ Ord(ferien[i].start) <= Ord(ferien[j].start)
                 /\ Ord(ferien[i].start) = Ord(ferien[j].start) =>
                        FirstPeriodIndex(FerienBody, FerienKey(ferien[i]))
                            < FirstPeriodIndex(FerienBody, FerienKey(ferien[j]))
    /\ FeiertageReturned =>
         \A i, j \in 1..Len(feiertage[1]) :
             i < j =>
                 /\ Ord(feiertage[1][i].datum) <= Ord(feiertage[1][j].datum)
                 /\ Ord(feiertage[1][i].datum) = Ord(feiertage[1][j].datum) =>
                        FirstDayIndex(FeiertageBody, FeiertagKey(feiertage[1][i]))
                            < FirstDayIndex(FeiertageBody, FeiertagKey(feiertage[1][j]))

\* two periods with one start date, the longer one first in the source and
\* first in the returned list
C17_Witness ==
    /\ FerienReturned
    /\ Len(ferien) = 2
    /\ ferien[1].start = ferien[2].start
    /\ Ord(ferien[1].end) > Ord(ferien[2].end)
    /\ SourcePeriod(FerienBody[1]) = ferien[1]

\* C18: when the published snapshot has missing years for either feed
\* (data-complete is false), the years shown by the data-status sensor and
\* the overview sensor (state text and fehlende_jahre attribute) are the
\* union of the snapshot's period and holiday-day missing years; the status
\* is never incomplete with an empty list of years.
C18_MissingYearsShown ==
    Published =>
        LET d == data[1]
            union == SeqSet(d.ferien_fehlende_jahre) \cup SeqSet(d.feiertage_fehlende_jahre)
        IN  ~d.daten_vollstaendig =>
                /\ union # {}
                /\ DatenstatusValue(d).status = "Unvollstaendig"
                /\ SeqSet(DatenstatusValue(d).jahre) = union
                /\ SeqSet(DatenstatusAttrs(d).fehlende_jahre) = union
                /\ ~UebersichtValue(d).check_mark
                /\ SeqSet(UebersichtValue(d).jahre) = union
                /\ SeqSet(UebersichtAttrs(d).fehlende_jahre) = union

Quiescent == \A e \in Entries : entry_pc[e] \in {"not_loaded", "loaded", "failed_unload"}

\* C20: after any completed sequence of async_setup_entry and
\* async_unload_entry calls (first refreshes and platform unloads may fail)
\* the service update_ferien is registered if and only if a coordinator is
\* stored in hass.data for the domain; it is never registered more than
\* once; and a call of it made after such a sequence requests a refresh on
\* every stored coordinator: the call starts with the stored coordinators
\* and none refreshed, and while no setup or unload is under way and the
\* stored coordinators are those of the start, a turn of the handler
\* refreshes one more stored coordinator, does not raise, and ends the loop
\* only when every stored coordinator has been refreshed.
C20_ServiceRegistration ==
    /\ [](services <= 1)
    /\ [](Quiescent => (has_service(services) <=> Stored # {}))
    /\ [][ (handler.pc # "iterating" /\ handler'.pc = "iterating") =>
               handler'.keys = Stored' /\ handler'.visited = {} ]_vars
    /\ [][ ( /\ handler.pc = "iterating" /\ handler' # handler
             /\ Quiescent /\ handler.keys = Stored
             /\ handler.visited \subseteq Stored ) =>
                /\ handler'.pc \in {"iterating", "done"}
                /\ handler'.visited \subseteq Stored'
                /\ handler'.pc = "iterating" =>
                       Cardinality(handler'.visited) = Cardinality(handler.visited) + 1
                /\ handler'.pc = "done" => handler'.visited = Stored' ]_vars

\* one entry failed to unload, the other was unloaded and set up again; the
\* service was called and has refreshed both coordinators
C20_Witness ==
    /\ Quiescent
    /\ \E e \in Entries : entry_pc[e] = "failed_unload"
    /\ Cardinality(Stored) = 2
    /\ services = 1
    /\ handler.pc = "done" /\ handler.visited = Stored

====
